---- MODULE Spec2Model ----
(***************************************************************************)
(* Model of src/gh.js: the runner-lifecycle operations of the EC2 GitHub    *)
(* runner action (getRunner, getRegistrationToken, removeRunner,           *)
(* waitForRunnerRegistered) against a remote runner registry.              *)
(*                                                                         *)
(* Two specifications share the state:                                     *)
(*   Spec        a caller invoking getRunner / removeRunner /              *)
(*               getRegistrationToken one after another; every await of a  *)
(*               request is a step, the response (or failure) the next.    *)
(*   WaiterSpec  one run of waitForRunnerRegistered: quiet period, the     *)
(*               repeating timer, the getRunner calls in flight and the    *)
(*               callback continuations.                                   *)
(***************************************************************************)
EXTENDS Integers, Sequences, FiniteSets, TLC

VARIABLES
    registry,        \* remote: the repository's runners, in listing order
    githubContext,   \* config.githubContext (a JS object: field -> value)
    inputLabel,      \* config.input.label
    pc,              \* position of the running operation
    op,              \* the exported/internal function the caller invoked
    arg,             \* getRunner's parameter `label`
    runners,         \* getRunner: local `runners`
    done,            \* getRunner: local `done`
    page,            \* getRunner: local `page`
    found,           \* getRunner's return value (None or Some(record))
    listing,         \* how the last getRunner ended: "none" | "ok" | "failed"
    requests,        \* requests issued by the current top-level call
    outcome,         \* how the last call ended: "none" | "returned" | "threw"
    raised,          \* the error the failing request raised ("" if none)
    thrown,          \* the error the call rejected with ("" if none)
    token,           \* getRegistrationToken's return value ("" if none)
    errorLogs,       \* number of core.error calls of the current call
    calls,           \* number of top-level calls made
    issued,          \* the token the remote put into its response ("" if none)
    before,          \* what held when the current call began (previous call's
                     \* op, outcome and DELETE count; carriers of the label)
    \* ---- waitForRunnerRegistered ----
    wphase,          \* "off" | "quiet" | "polling"
    intervalActive,  \* the setInterval timer exists and is not cleared
    waitSeconds,     \* local `waitSeconds`
    inflight,        \* number of getRunner calls of the timer not yet returned
    firstPending,    \* the first poll's getRunner call has not returned yet
    polls,           \* number of getRunner invocations made by the timer
    promise,         \* "pending" | "resolved" | "rejected"
    resolveCalls,    \* times the success path (resolve()) was executed
    rejectCalls,     \* times the timeout path (core.error + reject) was executed
    overlap,         \* whether the locator may be slower than the interval
    onlineSeen,      \* some poll returned a runner with status online
    firstPollOnline, \* the first poll returned a runner with status online
    lastPoll         \* record of the most recent callback continuation

opsVars == <<githubContext, inputLabel, pc, op, arg, runners, done, page, found,
             listing, requests, outcome, raised, thrown, token, errorLogs, calls,
             issued, before>>

waiterVars == <<wphase, intervalActive, waitSeconds, inflight, firstPending,
                polls, promise,
                resolveCalls, rejectCalls, overlap, onlineSeen, firstPollOnline,
                lastPoll>>

vars == <<registry, opsVars, waiterVars>>

-----------------------------------------------------------------------------
(* Program constants *)

PAGE_SIZE == 100

timeoutMinutes == 5

retryIntervalSeconds == 10

quietPeriodSeconds == 30

(* Bounds of the model *)

MaxPages == 2

MaxCalls == 2

MaxPolls == 34

MaxInFlight == 3

-----------------------------------------------------------------------------
(* Values *)

Labels == {"x", "y"}

Errors == {"E1", "E2"}

Tokens == {"abc", "def"}

None == <<>>

Some(r) == <<r>>

Min(a, b) == IF a < b THEN a ELSE b

\* The id the remote assigns to the runner at listing position i.
RunnerId(i) == 2 * i - 1

RunnerRecord(i, lab, st) ==
    [id |-> RunnerId(i), status |-> st,
     labels |-> <<[name |-> "self-hosted"], [name |-> lab]>>]

\* A registry of n runners; those at the positions in `marked` carry "x".
MakeRegistry(n, marked, st) ==
    [i \in 1..n |-> RunnerRecord(i, IF i \in marked THEN "x" ELSE "other", st)]

RegistrySizes ==
    {k * PAGE_SIZE + d : k \in 0..MaxPages, d \in {-1, 0, 1}} \cap Nat

MarkPositions(n) == {1, PAGE_SIZE, PAGE_SIZE + 1} \cap (1..n)

InitialContext == [owner |-> "o", repo |-> "r"]

-----------------------------------------------------------------------------
(* Remote API *)

\* GET /repos/{owner}/{repo}/actions/runners?per_page=PAGE_SIZE&page=p
PageOf(reg, p) ==
    SubSeq(reg, (p - 1) * PAGE_SIZE + 1, Min(p * PAGE_SIZE, Len(reg)))

GetRequest(p, ctx) ==
    [method |-> "GET", per_page |-> PAGE_SIZE, page |-> p, params |-> ctx]

PostRequest(ctx) == [method |-> "POST", params |-> ctx]

DeleteRequest(ctx) == [method |-> "DELETE", params |-> ctx]

\* The remote registry after DELETE .../runners/{runner_id}
RemoveById(reg, rid) == SelectSeq(reg, LAMBDA r : r.id # rid)

-----------------------------------------------------------------------------
(* lodash helpers *)

\* _.filter(runners, { labels: [{ name: label }] }): partial deep match, i.e.
\* some entry of the runner's labels has this name.
MatchesLabel(r, label) == \E i \in DOMAIN r.labels : r.labels[i].name = label

\* Variant: the filter keeps every runner, whatever its labels.
FilterNone(rs, label) == rs

FilterByLabel(rs, label) == SelectSeq(rs, LAMBDA r : MatchesLabel(r, label))

\* Variant: takes the last match instead of the first.
LastOrNull(foundRunners) ==
    IF Len(foundRunners) > 0 THEN Some(foundRunners[Len(foundRunners)]) ELSE None

\* const ret = foundRunners.length > 0 ? foundRunners[0] : null
FirstOrNull(foundRunners) ==
    IF Len(foundRunners) > 0 THEN Some(foundRunners[1]) ELSE None

\* _.merge(object, source) for flat objects: assigns source's fields into
\* object (in place) and returns it.
Merge(object, source) ==
    [k \in DOMAIN object \cup DOMAIN source |->
        IF k \in DOMAIN source THEN source[k] ELSE object[k]]

-----------------------------------------------------------------------------
(* getRunner: one loop iteration per response *)

\* Variant: a full page is taken for the last one.
IsLastPageInclusive(resp) == Len(resp) <= PAGE_SIZE

\* done = response.data.runners.length < PAGE_SIZE
IsLastPage(resp) == Len(resp) < PAGE_SIZE

\* page++
NextPage(p) == p + 1

\* lines 36-39: the value getRunner returns after a complete listing
LocateIn(rs, label) == FirstOrNull(FilterByLabel(rs, label))

\* Variant: the catch block answers from the pages fetched so far.
OnListErrorPartial(rs, label) == FirstOrNull(FilterByLabel(rs, label))

\* lines 40-42: the value getRunner returns when a request raised
OnListError(rs, label) == None

\* Variant: fields already present in the context win over the merged ones.
MergedContextStale(ctx, r) ==
    IF r = None THEN ctx ELSE Merge([runner_id |-> r[1].id], ctx)

\* Variant: the DELETE is issued whether or not a runner was found.
RemovalRequestsAlways(ctx, r) ==
    <<DeleteRequest(IF r = None THEN ctx ELSE Merge(ctx, [runner_id |-> r[1].id]))>>

\* Variant: the removal is skipped whether or not a runner was found.
RemovalRequestsNever(ctx, r) == <<>>

\* lines 74-78: the requests removeRunner issues once getRunner returned r
\* (none when `!runner`), with the context object _.merge leaves behind
MergedContext(ctx, r) ==
    IF r = None THEN ctx ELSE Merge(ctx, [runner_id |-> r[1].id])

RemovalRequests(ctx, r) ==
    IF r = None THEN <<>> ELSE <<DeleteRequest(MergedContext(ctx, r))>>

GetRequests == SelectSeq(requests, LAMBDA q : q.method = "GET")

DeleteRequests == SelectSeq(requests, LAMBDA q : q.method = "DELETE")

\* The positions of the runners carrying label l, in a sequence of records.
Carriers(rs, l) ==
    {i \in DOMAIN rs : \E j \in DOMAIN rs[i].labels : rs[i].labels[j].name = l}

\* Variant: the error is replaced by a new, generic one.
RethrowGeneric(error) == "Error"

\* throw error (lines 58, 83)
Rethrow(error) == error

\* Variant: reads the token from the response itself, where there is none.
ReturnedTokenOfResponse(response) ==
    IF "token" \in DOMAIN response THEN response.token ELSE ""

\* return response.data.token (line 55)
ReturnedToken(response) == response.data.token

waiterIdle ==
    /\ wphase = "off"
    /\ UNCHANGED waiterVars

\* What the caller of getRunner does with its return value r, the requests
\* issued so far being reqs.
Resume(r, reqs) ==
    /\ found' = r
    /\ IF op = "removeRunner"
       THEN /\ githubContext' = MergedContext(githubContext, r)
            /\ requests' = reqs \o RemovalRequests(githubContext, r)
            /\ IF RemovalRequests(githubContext, r) = <<>>
               THEN pc' = "idle" /\ outcome' = "returned"
               ELSE pc' = "deleting" /\ outcome' = "none"
       ELSE /\ githubContext' = githubContext
            /\ requests' = reqs
            /\ pc' = "idle"
            /\ outcome' = "returned"

StartCall(name, label) ==
    /\ pc = "idle"
    /\ calls < MaxCalls
    /\ calls' = calls + 1
    /\ op' = name
    /\ arg' = label
    /\ outcome' = "none"
    /\ raised' = ""
    /\ thrown' = ""
    /\ token' = ""
    /\ errorLogs' = 0
    /\ found' = None
    /\ listing' = "none"
    /\ issued' = ""
    /\ before' = [op |-> op, outcome |-> outcome,
                  deletes |-> Len(DeleteRequests),
                  carriers |-> Cardinality(Carriers(registry, inputLabel))]
    /\ UNCHANGED <<registry, githubContext, inputLabel>>

StartListing ==
    /\ runners' = <<>>
    /\ done' = FALSE
    /\ page' = 1
    /\ requests' = <<GetRequest(1, githubContext)>>
    /\ pc' = "listing"

\* getRunner(label) called directly
CallGetRunner ==
    /\ \E l \in Labels : StartCall("getRunner", l)
    /\ StartListing
    /\ waiterIdle

\* removeRunner(): const runner = await getRunner(config.input.label)
CallRemoveRunner ==
    /\ StartCall("removeRunner", inputLabel)
    /\ StartListing
    /\ waiterIdle

\* the request of line 23 returns a page
ListPageOk ==
    /\ pc = "listing"
    /\ LET resp == PageOf(registry, page)
           rs == runners \o resp
       IN  /\ runners' = rs
           /\ done' = IsLastPage(resp)
           /\ page' = NextPage(page)
           /\ IF IsLastPage(resp)
              THEN /\ listing' = "ok"
                   /\ Resume(LocateIn(rs, arg), requests)
              ELSE /\ listing' = listing
                   /\ requests' = Append(requests,
                                         GetRequest(NextPage(page), githubContext))
                   /\ UNCHANGED <<pc, found, outcome, githubContext>>
    /\ UNCHANGED <<registry, inputLabel, op, arg, raised, thrown, token,
                   errorLogs, calls, issued, before>>
    /\ waiterIdle

\* the request of line 23 raises: catch (error) { return null; }
ListPageFail ==
    /\ pc = "listing"
    /\ \E e \in Errors : raised' = e
    /\ listing' = "failed"
    /\ Resume(OnListError(runners, arg), requests)
    /\ UNCHANGED <<registry, inputLabel, op, arg, runners, done, page, thrown,
                   token, errorLogs, calls, issued, before>>
    /\ waiterIdle

-----------------------------------------------------------------------------
(* removeRunner: the DELETE request *)

DeleteTarget == requests[Len(requests)].params.runner_id

DeleteOk ==
    /\ pc = "deleting"
    /\ \E i \in DOMAIN registry : registry[i].id = DeleteTarget
    /\ registry' = RemoveById(registry, DeleteTarget)
    /\ pc' = "idle"
    /\ outcome' = "returned"
    /\ UNCHANGED <<githubContext, inputLabel, op, arg, runners, done, page,
                   found, listing, requests, raised, thrown, token, errorLogs,
                   calls, issued, before>>
    /\ waiterIdle

\* catch (error) { core.error(...); throw error; }
DeleteFail ==
    /\ pc = "deleting"
    /\ \E e \in Errors : raised' = e /\ thrown' = Rethrow(e)
    /\ errorLogs' = errorLogs + 1
    /\ pc' = "idle"
    /\ outcome' = "threw"
    /\ UNCHANGED <<registry, githubContext, inputLabel, op, arg, runners, done,
                   page, found, listing, requests, token, calls, issued, before>>
    /\ waiterIdle

-----------------------------------------------------------------------------
(* getRegistrationToken *)

CallGetRegistrationToken ==
    /\ StartCall("getRegistrationToken", "")
    /\ requests' = <<PostRequest(githubContext)>>
    /\ pc' = "token"
    /\ UNCHANGED <<runners, done, page>>
    /\ waiterIdle

\* return response.data.token
TokenOk ==
    /\ pc = "token"
    /\ \E t \in Tokens :
          /\ issued' = t
          /\ token' = ReturnedToken([status |-> 201, data |-> [token |-> t]])
    /\ pc' = "idle"
    /\ outcome' = "returned"
    /\ UNCHANGED <<registry, githubContext, inputLabel, op, arg, runners, done,
                   page, found, listing, requests, raised, thrown, errorLogs,
                   calls, before>>
    /\ waiterIdle

\* catch (error) { core.error(...); throw error; }
TokenFail ==
    /\ pc = "token"
    /\ \E e \in Errors : raised' = e /\ thrown' = Rethrow(e)
    /\ errorLogs' = errorLogs + 1
    /\ pc' = "idle"
    /\ outcome' = "threw"
    /\ UNCHANGED <<registry, githubContext, inputLabel, op, arg, runners, done,
                   page, found, listing, requests, token, calls, issued, before>>
    /\ waiterIdle

-----------------------------------------------------------------------------
(* Specification of the operations *)

opsInit ==
    /\ githubContext = InitialContext
    /\ inputLabel \in Labels
    /\ pc = "idle"
    /\ op = "none"
    /\ arg = ""
    /\ runners = <<>>
    /\ done = FALSE
    /\ page = 1
    /\ found = None
    /\ listing = "none"
    /\ requests = <<>>
    /\ outcome = "none"
    /\ raised = ""
    /\ thrown = ""
    /\ token = ""
    /\ errorLogs = 0
    /\ calls = 0
    /\ issued = ""
    /\ before = [op |-> "none", outcome |-> "none", deletes |-> 0, carriers |-> 0]

waiterOff ==
    /\ wphase = "off"
    /\ intervalActive = FALSE
    /\ waitSeconds = 0
    /\ inflight = 0
    /\ firstPending = FALSE
    /\ polls = 0
    /\ promise = "pending"
    /\ resolveCalls = 0
    /\ rejectCalls = 0
    /\ overlap = FALSE
    /\ onlineSeen = FALSE
    /\ firstPollOnline = FALSE
    /\ lastPoll = None

Init ==
    /\ \E n \in RegistrySizes : \E marked \in SUBSET MarkPositions(n) :
          registry = MakeRegistry(n, marked, "offline")
    /\ opsInit
    /\ waiterOff

Next ==
    \/ CallGetRunner
    \/ CallRemoveRunner
    \/ CallGetRegistrationToken
    \/ ListPageOk
    \/ ListPageFail
    \/ DeleteOk
    \/ DeleteFail
    \/ TokenOk
    \/ TokenFail

Spec == Init /\ [][Next]_vars

-----------------------------------------------------------------------------
(* Properties of the operations (checked under Spec) *)

Least(S) == CHOOSE i \in S : \A j \in S : i <= j

\* The remote registry is still the one the current call listed.
RegistryAsListed == pc # "idle" \/ op = "getRunner"

\* C5: removeRunner, when getRunner returned absent (nothing carries the label,
\* or the listing failed), has returned normally: nothing thrown, no core.error,
\* and no DELETE request issued.
C5_AbsentRemovalSucceeds ==
    (op = "removeRunner" /\ listing # "none" /\ found = None) =>
        /\ pc = "idle"
        /\ outcome = "returned"
        /\ thrown = ""
        /\ errorLogs = 0
        /\ Len(DeleteRequests) = 0

C5_Witness ==
    /\ op = "removeRunner"
    /\ listing = "failed"
    /\ found = None
    /\ outcome = "returned"
    /\ Carriers(registry, inputLabel) # {}

\* C6: removeRunner, when getRunner returned a record, issues exactly one DELETE
\* request, its runner_id is the id of that record, and the record is the first
\* runner of the listing that carries config.input.label.
C6_DeleteKeyedByFound ==
    (op = "removeRunner" /\ found # None) =>
        /\ Len(DeleteRequests) = 1
        /\ \A i \in DOMAIN DeleteRequests :
              DeleteRequests[i].params.runner_id = found[1].id
        /\ Carriers(runners, inputLabel) # {}
        /\ found[1] = runners[Least(Carriers(runners, inputLabel))]

C6_Witness ==
    /\ op = "removeRunner"
    /\ found # None
    /\ outcome = "returned"
    /\ calls = 2
    /\ "runner_id" \in DOMAIN requests[1].params
    /\ requests[1].params.runner_id # found[1].id
    /\ Len(DeleteRequests) = 1

\* C7 (as claimed): config.githubContext keeps exactly the fields and values it
\* had before any sequence of calls.
C7_ContextReadOnly == githubContext = InitialContext

\* C8: the listing requests pages 1, 2, 3, ... in order with page size 100,
\* every page before the last requested one was full, the listing ends exactly
\* at the first short page with all records appended in order, and pages of
\* 100, 100, 0 records take three requests and give 200 records.
C8_Pagination ==
    (op \in {"getRunner", "removeRunner"} /\ RegistryAsListed) =>
        LET k == Len(GetRequests) IN
        /\ \A i \in 1..k : GetRequests[i].page = i /\ GetRequests[i].per_page = 100
        /\ \A i \in 1..(k - 1) : Len(PageOf(registry, i)) = 100
        /\ pc = "listing" => page = k /\ Len(runners) = 100 * (k - 1)
        /\ listing = "ok" =>
              /\ Len(PageOf(registry, k)) < 100
              /\ runners = registry
        /\ (listing = "ok" /\ Len(registry) = 200) => k = 3 /\ Len(runners) = 200

C8_Witness ==
    /\ op = "getRunner"
    /\ listing = "ok"
    /\ Len(registry) = 200
    /\ Len(GetRequests) = 3
    /\ Len(runners) = 200

\* C9: when the request for any page fails, getRunner returns null and nothing
\* is thrown, whatever the pages fetched before contained.
C9_ListingFailureSwallowed ==
    listing = "failed" =>
        /\ found = None
        /\ thrown = ""
        /\ errorLogs = 0
        /\ pc = "idle"
        /\ outcome = "returned"

C9_Witness ==
    /\ op = "getRunner"
    /\ listing = "failed"
    /\ page > 1
    /\ Carriers(runners, arg) # {}
    /\ found = None

\* C10: after a successful listing getRunner(label) returns null when no runner
\* carries the label and otherwise the first carrier in listing order (the only
\* one when there is exactly one).
C10_LocateFirstMatch ==
    (listing = "ok" /\ RegistryAsListed) =>
        IF Carriers(registry, arg) = {}
        THEN found = None
        ELSE found = Some(registry[Least(Carriers(registry, arg))])

C10_Witness ==
    /\ op = "getRunner"
    /\ listing = "ok"
    /\ Cardinality(Carriers(registry, arg)) >= 2
    /\ Least(Carriers(registry, arg)) > 1
    /\ found = Some(registry[Least(Carriers(registry, arg))])

\* C11: a getRegistrationToken call issues exactly one request, the POST; when
\* it succeeds it returns the token of the response and logs no error; when the
\* request raises it rejects with that same error after exactly one core.error.
C11_TokenOnePostNoRetry ==
    op = "getRegistrationToken" =>
        /\ Len(requests) = 1
        /\ requests[1].method = "POST"
        /\ pc = "idle" => outcome \in {"returned", "threw"}
        /\ outcome = "returned" =>
              /\ issued \in Tokens
              /\ token = issued
              /\ thrown = ""
              /\ errorLogs = 0
        /\ outcome = "threw" =>
              /\ raised \in Errors
              /\ thrown = raised
              /\ errorLogs = 1
              /\ token = ""

C11_Witness ==
    /\ op = "getRegistrationToken"
    /\ outcome = "threw"
    /\ thrown = "E2"
    /\ errorLogs = 1
    /\ before.op = "getRegistrationToken"
    /\ before.outcome = "returned"

\* C12: a removeRunner call that begins when no runner carries the label (the
\* runner was removed by an earlier removeRunner, or never registered) returns
\* normally, issues no DELETE request and leaves the registry without carriers.
C12_RemovalIdempotent ==
    (op = "removeRunner" /\ before.carriers = 0 /\ pc # "listing") =>
        /\ pc = "idle"
        /\ outcome = "returned"
        /\ thrown = ""
        /\ Len(DeleteRequests) = 0
        /\ Carriers(registry, inputLabel) = {}

C12_Witness ==
    /\ op = "removeRunner"
    /\ before.op = "removeRunner"
    /\ before.outcome = "returned"
    /\ before.deletes = 1
    /\ before.carriers = 0
    /\ listing = "ok"
    /\ outcome = "returned"
    /\ Len(registry) > 0

\* C17: removeRunner throws only when the runner was found and the DELETE
\* failed: it then rethrows the error the request raised, after exactly one
\* core.error and exactly one DELETE request.
C17_DeleteFailureRethrown ==
    (op = "removeRunner" /\ outcome = "threw") =>
        /\ pc = "idle"
        /\ found # None
        /\ raised \in Errors
        /\ thrown = raised
        /\ errorLogs = 1
        /\ Len(DeleteRequests) = 1
        /\ \E i \in DOMAIN registry : registry[i].id = found[1].id

C17_Witness ==
    /\ op = "removeRunner"
    /\ outcome = "threw"
    /\ thrown = "E1"
    /\ Len(GetRequests) = 2

\* C20 (as claimed): whenever removeRunner has returned without error, no
\* runner carrying config.input.label remains in the registry.
C20_ReturnedMeansRemoved ==
    (op = "removeRunner" /\ outcome = "returned") =>
        Carriers(registry, inputLabel) = {}

\* C20 (amended): whenever removeRunner has returned without error after a
\* listing that succeeded, and at most one runner carried the label when the call
\* began, no runner carrying the label remains in the registry.
C20_ReturnedAfterListingMeansRemoved ==
    (op = "removeRunner" /\ outcome = "returned" /\ listing = "ok"
        /\ before.carriers <= 1) =>
        Carriers(registry, inputLabel) = {}

C20_Witness ==
    /\ op = "removeRunner"
    /\ outcome = "returned"
    /\ listing = "ok"
    /\ before.carriers = 1
    /\ found # None
    /\ Len(DeleteRequests) = 1
    /\ Carriers(registry, inputLabel) = {}

-----------------------------------------------------------------------------
(* waitForRunnerRegistered *)

\* getRunner's listing loop (lines 17-31) run to its end against one registry.
RECURSIVE ListFrom(_, _, _)
ListFrom(reg, p, acc) ==
    LET resp == PageOf(reg, p)
    IN  IF IsLastPage(resp)
        THEN acc \o resp
        ELSE ListFrom(reg, NextPage(p), acc \o resp)

\* getRunner(label) as one call: null when a request failed.
GetRunner(reg, label, failed) ==
    IF failed
    THEN OnListError(<<>>, label)
    ELSE LocateIn(ListFrom(reg, 1, <<>>), label)

\* Variant: the timeout is taken as reached at the threshold itself.
TimedOutInclusive(ws) == ws >= timeoutMinutes * 60

\* waitSeconds > timeoutMinutes * 60
TimedOut(ws) == ws > timeoutMinutes * 60

\* Variant: any located runner counts, whatever its status.
IsRegistered(r) == r # None

\* runner && runner.status === 'online'
IsOnline(r) == r # None /\ r[1].status = "online"

\* resolve() / reject() of a promise: only the first settles it.
Settle(p, how) == IF p = "pending" THEN how ELSE p

\* Variant: the timeout branch leaves the timer running.
IntervalAfterTimeoutKept(active, timedOut) == active

\* clearInterval(interval) in the timeout branch (line 107)
IntervalAfterTimeout(active, timedOut) == IF timedOut THEN FALSE ELSE active

\* clearInterval(interval) in the success branch (line 117)
IntervalAfterCheck(active, online) == IF online THEN FALSE ELSE active

\* waitSeconds += retryIntervalSeconds in the else branch (line 120)
WaitAfterCheck(ws, online) == IF online THEN ws ELSE ws + retryIntervalSeconds

\* Variant: setInterval is called before the quiet period is awaited.
TimerArmedEarly == TRUE

\* Whether the repeating timer exists when the function starts: setInterval is
\* reached only after the await of line 96.
TimerArmedAtStart == FALSE

opsIdle ==
    /\ pc = "idle"
    /\ UNCHANGED opsVars

\* await new Promise((r) => setTimeout(r, quietPeriodSeconds * 1000)) is over:
\* the promise is created and setInterval arms the timer.
QuietPeriodElapsed ==
    /\ wphase = "quiet"
    /\ wphase' = "polling"
    /\ intervalActive' = TRUE
    /\ UNCHANGED <<registry, waitSeconds, inflight, firstPending, polls, promise,
                   resolveCalls, rejectCalls, overlap, onlineSeen,
                   firstPollOnline, lastPoll>>
    /\ opsIdle

\* The timer fires: the callback starts and suspends at await getRunner(label).
Tick ==
    /\ wphase # "off"
    /\ intervalActive
    /\ polls < MaxPolls
    /\ inflight < MaxInFlight
    /\ overlap \/ inflight = 0
    /\ polls' = polls + 1
    /\ inflight' = inflight + 1
    /\ firstPending' = (firstPending \/ polls = 0)
    /\ UNCHANGED <<registry, wphase, intervalActive, waitSeconds, promise,
                   resolveCalls, rejectCalls, overlap, onlineSeen,
                   firstPollOnline, lastPoll>>
    /\ opsIdle

\* A getRunner call of the timer returns (the first poll's or a later one's, in
\* any order): the rest of the callback (lines 105-122) runs. The label passed
\* to waitForRunnerRegistered is the configured one.
PollReturns ==
    /\ wphase # "off"
    /\ \E isFirst \in BOOLEAN : \E failed \in BOOLEAN :
          /\ IF isFirst THEN firstPending
                        ELSE inflight > (IF firstPending THEN 1 ELSE 0)
          /\ LET runner == GetRunner(registry, inputLabel, failed)
                 timedOut == TimedOut(waitSeconds)
                 online == IsOnline(runner)
             IN  /\ inflight' = inflight - 1
                 /\ firstPending' = (firstPending /\ ~isFirst)
                 /\ rejectCalls' = IF timedOut THEN rejectCalls + 1 ELSE rejectCalls
                 /\ resolveCalls' = IF online THEN resolveCalls + 1 ELSE resolveCalls
                 /\ promise' =
                       LET p1 == IF timedOut THEN Settle(promise, "rejected") ELSE promise
                       IN  IF online THEN Settle(p1, "resolved") ELSE p1
                 /\ intervalActive' =
                       IntervalAfterCheck(IntervalAfterTimeout(intervalActive, timedOut),
                                          online)
                 /\ waitSeconds' = WaitAfterCheck(waitSeconds, online)
                 /\ onlineSeen' = (onlineSeen \/ online)
                 /\ firstPollOnline' = IF isFirst THEN online ELSE firstPollOnline
                 /\ lastPoll' = Some([first |-> isFirst, waitBefore |-> waitSeconds,
                                      settledBefore |-> promise,
                                      runner |-> runner, timedOut |-> timedOut,
                                      online |-> online])
    /\ UNCHANGED <<registry, wphase, polls, overlap>>
    /\ opsIdle

\* Environment: the launched instance registers itself as a runner carrying
\* the label, and its status changes.
RunnerRegisters ==
    /\ wphase # "off"
    /\ Carriers(registry, inputLabel) = {}
    /\ registry' = Append(registry,
                          RunnerRecord(Len(registry) + 1, inputLabel, "offline"))
    /\ UNCHANGED waiterVars
    /\ opsIdle

RunnerStatusChanges ==
    /\ wphase # "off"
    /\ \E i \in Carriers(registry, inputLabel) :
          registry' = [registry EXCEPT ![i].status =
                          IF @ = "online" THEN "offline" ELSE "online"]
    /\ UNCHANGED waiterVars
    /\ opsIdle

WaiterInit ==
    /\ registry = MakeRegistry(1, {}, "online")
    /\ opsInit
    /\ wphase = "quiet"
    /\ intervalActive = TimerArmedAtStart
    /\ waitSeconds = 0
    /\ inflight = 0
    /\ firstPending = FALSE
    /\ polls = 0
    /\ promise = "pending"
    /\ resolveCalls = 0
    /\ rejectCalls = 0
    /\ overlap \in BOOLEAN
    /\ onlineSeen = FALSE
    /\ firstPollOnline = FALSE
    /\ lastPoll = None

WaiterNext ==
    \/ QuietPeriodElapsed
    \/ Tick
    \/ PollReturns
    \/ RunnerRegisters
    \/ RunnerStatusChanges

WaiterSpec == WaiterInit /\ [][WaiterNext]_vars

-----------------------------------------------------------------------------
(* Properties of waitForRunnerRegistered (checked under WaiterSpec) *)

\* 300/10 + 1, the number of polls the specification allows before the timeout
PollsClaimed == (timeoutMinutes * 60) \div retryIntervalSeconds + 1

\* The locator never answered online and never overlapped a timer tick.
NeverOnlineSerial == wphase = "polling" /\ ~overlap /\ ~onlineSeen

\* C1 (as claimed): against a locator that never returns an online runner and
\* always answers before the next tick, no more than 300/10 + 1 = 31 getRunner
\* invocations are made.
C1_AtMost31Polls == NeverOnlineSerial => polls <= PollsClaimed

\* C1 (amended): against such a locator no more than 300/10 + 2 = 32 getRunner
\* invocations are made; the promise is pending until the 32nd has returned and
\* rejected, with the timer cleared, from then on.
C1_RejectsAfter32Polls ==
    NeverOnlineSerial =>
        /\ polls <= PollsClaimed + 1
        /\ promise \in {"pending", "rejected"}
        /\ promise = "rejected" <=> (polls = PollsClaimed + 1 /\ inflight = 0)
        /\ promise = "rejected" => ~intervalActive /\ rejectCalls = 1

C1_Witness ==
    /\ NeverOnlineSerial
    /\ polls = 32
    /\ inflight = 0
    /\ promise = "rejected"
    /\ lastPoll # None
    /\ lastPoll[1].waitBefore = 310

\* C2 (as claimed): at most one getRunner call of the waiter is in flight at any
\* moment, whatever the latency of the locate call.
C2_AtMostOneInFlight == inflight <= 1

\* C3 (as claimed): when the first poll finds the runner online, the waiter
\* resolves and that poll is the only getRunner invocation of the run.
C3_FirstPollOnlineSinglePoll ==
    firstPollOnline => promise = "resolved" /\ polls = 1

\* C4 (as claimed): the number of getRunner invocations of a run is bounded by a
\* fixed constant (the 32 of a run without overlap), however slow the locate
\* calls are.
C4_PollsBounded == polls <= PollsClaimed + 1

\* C13 (as claimed): in a poll iteration whose accumulated wait exceeds 300
\* seconds and in which the located runner is online, the timeout is checked first
\* and the waiter's outcome is TimedOut: the promise is rejected, not resolved.
C13_TimeoutWinsOverOnline ==
    (lastPoll # None /\ lastPoll[1].timedOut /\ lastPoll[1].online) =>
        promise = "rejected"

\* C14: the timeout threshold is strict. No iteration whose waitSeconds is at
\* most 300 rejects (the promise is never rejected while no iteration has seen
\* more than 300), and an iteration that finds the runner online with waitSeconds
\* exactly 300 leaves the waiter Registered.
C14_StrictThreshold ==
    /\ rejectCalls > 0 => waitSeconds > timeoutMinutes * 60
    /\ promise = "rejected" => rejectCalls > 0
    /\ lastPoll # None =>
          /\ lastPoll[1].timedOut <=> lastPoll[1].waitBefore > 300
          /\ (lastPoll[1].waitBefore <= 300 /\ lastPoll[1].online) =>
                promise = "resolved"

C14_Witness ==
    /\ lastPoll # None
    /\ lastPoll[1].waitBefore = 300
    /\ lastPoll[1].online
    /\ ~lastPoll[1].timedOut
    /\ lastPoll[1].settledBefore = "pending"
    /\ promise = "resolved"
    /\ rejectCalls = 0

\* C15: during the quiet period the timer does not exist and no getRunner call
\* has been started or has returned; every poll belongs to the polling phase.
C15_NoPollInQuietPeriod ==
    /\ wphase = "quiet" =>
          /\ ~intervalActive
          /\ polls = 0
          /\ inflight = 0
          /\ lastPoll = None
    /\ polls > 0 => wphase = "polling"

C15_Witness ==
    /\ wphase = "quiet"
    /\ polls = 0
    /\ \E i \in Carriers(registry, inputLabel) : registry[i].status = "online"

\* C16: the waiter resolves only if some poll returned a runner that carries
\* the label and whose status is online; a poll that returned null or a runner
\* that is not online does not resolve it and adds exactly 10 to waitSeconds;
\* without overlap the k-th poll's timeout check sees waitSeconds = 10 * (k - 1).
C16_ResolveOnlyWhenOnline ==
    /\ (promise = "resolved" \/ resolveCalls > 0) => onlineSeen
    /\ lastPoll # None =>
          LET p == lastPoll[1] IN
          /\ p.online <=> (p.runner # None /\ p.runner[1].status = "online")
          /\ p.online => onlineSeen
          /\ p.runner # None =>
                \E j \in DOMAIN p.runner[1].labels :
                    p.runner[1].labels[j].name = inputLabel
          /\ ~p.online =>
                /\ waitSeconds = p.waitBefore + 10
                /\ promise = "resolved" => p.settledBefore = "resolved"
          /\ ~overlap => p.waitBefore = 10 * (polls - inflight - 1)

C16_Witness ==
    /\ ~overlap
    /\ lastPoll # None
    /\ ~lastPoll[1].online
    /\ lastPoll[1].runner # None
    /\ lastPoll[1].waitBefore = 20
    /\ polls = 3
    /\ inflight = 0
    /\ waitSeconds = 30
    /\ promise = "pending"

\* C18 (as claimed): over any run the timeout path (core.error + reject) and the
\* success path (resolve) are never both executed, and neither more than once.
C18_TerminalPathsExclusive == rejectCalls + resolveCalls <= 1

\* C19 (as claimed): once the waiter is Registered or TimedOut no timer tick
\* fires, no getRunner call is started and waitSeconds is not modified.
C19_QuiescentAfterTerminal ==
    [][promise # "pending" =>
          /\ polls' = polls
          /\ waitSeconds' = waitSeconds]_vars

====
